---- MODULE Spec2Model ----
(***************************************************************************)
(* Model of the two query services of asistente-legal-sf and of its        *)
(* ingestion script:                                                       *)
(*   src/api.py        FastAPI service, POST /query -> process_query       *)
(*   src/api/index.py  serverless handler over a Llama Index query engine  *)
(*   src/index_data.py download, chunk, embed and upsert a corpus          *)
(* Spec is a process running one of the query services, SpecIngest a run   *)
(* of the ingestion script.                                                *)
(*                                                                         *)
(* Texts are sequences of tokens.  The two sentinel tags and the two email *)
(* markers are single tokens: each of these literals begins with a         *)
(* character that occurs nowhere else in it ('[', 'S', 'B'), so no two     *)
(* occurrences can overlap and Python's substring operations (in, split,   *)
(* replace) act on them exactly as the token operations below do.          *)
(***************************************************************************)
EXTENDS Integers, Sequences, FiniteSets, TLC

VARIABLES
    module,             \* which service this process runs: "api.py" or "api/index.py"
    app,                \* "loading", "serving" or "dead" (module initialisation raised)
    environ,            \* os.environ restricted to the variables the services read
    storage,            \* api/index.py: does ./storage exist
    QUERY_ENGINE,       \* api/index.py: "None" or "engine"
    pc,                 \* position of the request in flight
    data,               \* api.py: the QueryModel of the request in flight
    siteverify,         \* state of the external reCAPTCHA verification service
    calls,              \* external calls made for the request in flight, in order
    query_results,      \* api.py: number of matches returned by the vector index
    raw_llm_response,   \* api.py: text returned by the chat completion
    emails,             \* api.py: one record per invocation of send_summary_email
    exc,                \* text of the exception raised while handling the request
    response,           \* the HTTP response of the request in flight
    \* src/index_data.py
    ipc,                \* position of the script
    DATA_URL,           \* "set" or "None"
    temp_dir,           \* does TEMP_DATA_DIR exist
    made_dir,           \* os.makedirs(TEMP_DATA_DIR) has been executed
    download,           \* what the download and extraction met, "" before it
    entered,            \* index_data_optimized has been called
    n_files,            \* number of files os.walk yields
    file_no,            \* number of the file being processed, from 1
    n_chunks,           \* number of chunks of the file being processed
    chunk_no,           \* number of chunks of this file already handled
    vectors_to_upsert,  \* the batch buffer, a sequence of chunk ids
    total_vectors,
    document_count,
    embedding_calls,    \* number of calls of embeddings.create
    embedded,           \* ids of the chunks whose embedding call succeeded
    upserts,            \* one record per call of pinecone_index.upsert
    failed_files,       \* numbers of the files whose partitioning raised
    printed_total,      \* the total printed at line 169, -1 before it
    cleanup_ran,        \* lines 181-187 have been executed
    exit_code           \* exit code of the process, -1 while it runs

qvars == << module, app, environ, storage, QUERY_ENGINE, pc, data, siteverify,
            calls, query_results, raw_llm_response, emails, exc, response >>

ivars == << ipc, DATA_URL, temp_dir, made_dir, download, entered, n_files,
            file_no, n_chunks, chunk_no, vectors_to_upsert, total_vectors,
            document_count, embedding_calls, embedded, upserts, failed_files,
            printed_total, cleanup_ran, exit_code >>

vars == << qvars, ivars >>

\* the ingestion script before its main block
IngestStart ==
    /\ ipc = "main"
    /\ temp_dir = FALSE
    /\ made_dir = FALSE
    /\ download = ""
    /\ entered = FALSE
    /\ n_files = 0
    /\ file_no = 0
    /\ n_chunks = 0
    /\ chunk_no = 0
    /\ vectors_to_upsert = << >>
    /\ total_vectors = 0
    /\ document_count = 0
    /\ embedding_calls = 0
    /\ embedded = { }
    /\ upserts = << >>
    /\ failed_files = { }
    /\ printed_total = -1
    /\ cleanup_ran = FALSE
    /\ exit_code = -1

-----------------------------------------------------------------------------
(* Bounds *)

MaxLen == 4         \* longest generated text, in tokens
MaxMatches == 1     \* most matches the vector index returns in the model

-----------------------------------------------------------------------------
(* Literals of src/api.py; the messages are written without their accents *)

summary_start_tag == "[INTERNAL_SUMMARY_START]"
summary_end_tag == "[INTERNAL_SUMMARY_END]"
SubjectMarker == "Subject:"
BodyMarker == "Body:"
BypassToken == "EsteEsUnTokenDePruebaTemporal"
FormatErrorSubject == << "Alerta: Resumen de Lead con Error de Formato" >>
Detail403 == << "Validacion reCAPTCHA fallida. Acceso denegado." >>
Detail500 == << "Error interno del servidor al procesar la solicitud." >>

None == "None"
Whitespace == { " ", "\n" }
Alphabet == { summary_start_tag, summary_end_tag, SubjectMarker, BodyMarker, " ", "a" }

RECURSIVE TextsOfLen(_)
TextsOfLen(n) ==
    IF n = 0 THEN { << >> }
    ELSE { << c >> \o t : c \in Alphabet, t \in TextsOfLen(n - 1) }

Texts == UNION { TextsOfLen(n) : n \in 0..MaxLen }

ExcTexts == { "boom" }

-----------------------------------------------------------------------------
(* Python str operations, on token sequences *)

\* needle in s, for a one-token needle
In(needle, s) == \E i \in 1..Len(s) : s[i] = needle

\* s.split(sep): the list of pieces, always at least one
RECURSIVE split(_, _)
split(s, sep) ==
    IF ~ In(sep, s) THEN << s >>
    ELSE LET i == CHOOSE k \in 1..Len(s) :
                    s[k] = sep /\ \A j \in 1..(k - 1) : s[j] # sep
         IN  << SubSeq(s, 1, i - 1) >> \o split(SubSeq(s, i + 1, Len(s)), sep)

\* s.strip(): leading and trailing whitespace removed
RECURSIVE lstrip(_)
lstrip(s) ==
    IF s # << >> /\ Head(s) \in Whitespace THEN lstrip(Tail(s)) ELSE s

RECURSIVE rstrip(_)
rstrip(s) ==
    IF s # << >> /\ s[Len(s)] \in Whitespace
    THEN rstrip(SubSeq(s, 1, Len(s) - 1)) ELSE s

strip(s) == rstrip(lstrip(s))

StartsWith(s, old) == Len(old) <= Len(s) /\ SubSeq(s, 1, Len(old)) = old

\* s.replace(old, new): every non-overlapping occurrence, left to right
RECURSIVE replace(_, _, _)
replace(s, old, new) ==
    IF s = << >> THEN << >>
    ELSE IF StartsWith(s, old)
         THEN new \o replace(SubSeq(s, Len(old) + 1, Len(s)), old, new)
         ELSE << Head(s) >> \o replace(Tail(s), old, new)

-----------------------------------------------------------------------------
(* src/api.py: configuration read at module initialisation *)

RequiredVars == { "PINECONE_API_KEY", "OPENAI_API_KEY", "RECAPTCHA_SECRET_KEY",
                  "PINECONE_ENVIRONMENT", "SMTP_SERVER", "SMTP_PORT",
                  "SMTP_USERNAME", "SMTP_PASSWORD" }
SmtpVars == { "SMTP_SERVER", "SMTP_PORT", "SMTP_USERNAME", "SMTP_PASSWORD" }
Ports == { "465", "587", "25" }

\* the values a variable can have in the environment; None is "not set"
EnvValues(v) == IF v = "SMTP_PORT" THEN Ports \cup { None } ELSE { "set", None }

missing_vars == { v \in RequiredVars : environ[v] = None }

-----------------------------------------------------------------------------
(* src/api.py: send_summary_email *)

SmtpOutcomes == { "ok", "auth_error", "error", "quit_error" }

NoParse == [ parsed |-> FALSE, subject_line |-> << >>, body_content |-> << >> ]

\* lines 100-107: subject and body are split out of the generated text; an
\* IndexError of either [1] selects the fallback
parse_email(subject, body) ==
    LET subject_parts == split(subject, SubjectMarker)
        body_parts == split(body, BodyMarker)
    IN  IF Len(subject_parts) >= 2 /\ Len(body_parts) >= 2
        THEN [ parsed |-> TRUE,
               subject_line |-> strip(subject_parts[2]),
               body_content |-> strip(body_parts[2]) ]
        ELSE [ parsed |-> FALSE,
               subject_line |-> FormatErrorSubject,
               body_content |-> subject ]

\* smtp_send without the handler of line 137: only SMTPAuthenticationError is
\* caught
smtp_send_propagates(smtp) ==
    IF environ["SMTP_PORT"] \notin { "465", "587" }
    THEN [ raised |-> FALSE, ret |-> FALSE, handed |-> FALSE ]
    ELSE CASE smtp = "ok" -> [ raised |-> FALSE, ret |-> TRUE, handed |-> TRUE ]
           [] smtp = "auth_error" -> [ raised |-> FALSE, ret |-> FALSE, handed |-> FALSE ]
           [] smtp = "error" -> [ raised |-> TRUE, ret |-> FALSE, handed |-> FALSE ]
           [] smtp = "quit_error" -> [ raised |-> TRUE, ret |-> FALSE, handed |-> TRUE ]

\* lines 115-139: the SMTP conversation.  smtp is what the server does:
\*   "ok"          login, sendmail and quit succeed
\*   "auth_error"  login raises SMTPAuthenticationError
\*   "error"       connecting, starttls or sendmail raises
\*   "quit_error"  sendmail succeeds and quit raises
smtp_send(smtp) ==
    IF environ["SMTP_PORT"] \notin { "465", "587" }
    THEN [ raised |-> FALSE, ret |-> FALSE, handed |-> FALSE ]
    ELSE CASE smtp = "ok" -> [ raised |-> FALSE, ret |-> TRUE, handed |-> TRUE ]
           [] smtp = "auth_error" -> [ raised |-> FALSE, ret |-> FALSE, handed |-> FALSE ]
           [] smtp = "error" -> [ raised |-> FALSE, ret |-> FALSE, handed |-> FALSE ]
           [] smtp = "quit_error" -> [ raised |-> FALSE, ret |-> FALSE, handed |-> TRUE ]

\* lines 91-139: one invocation, as a record of what it was given, what it
\* built and how it ended
send_summary_email(subject, body, smtp) ==
    IF \E v \in SmtpVars : environ[v] = None
    THEN [ input |-> subject, smtp |-> smtp, built |-> FALSE ] @@ NoParse
         @@ [ raised |-> FALSE, ret |-> FALSE, handed |-> FALSE ]
    ELSE [ input |-> subject, smtp |-> smtp, built |-> TRUE ]
         @@ parse_email(subject, body) @@ smtp_send(smtp)

-----------------------------------------------------------------------------
(* src/api.py: validate_recaptcha *)

SiteverifyStates == { "pass", "low_score", "fail", "unreachable" }

\* validate_recaptcha without the comparison of the score with min_score
validate_recaptcha_noscore(token, service) ==
    IF token = BypassToken THEN "True"
    ELSE IF service = "unreachable" THEN "raise"
    ELSE IF service \in { "pass", "low_score" } THEN "True"
    ELSE "False"

\* validate_recaptcha without the test of the bypass literal
validate_recaptcha_nobypass(token, service) ==
    IF service = "unreachable" THEN "raise"
    ELSE IF service = "pass" THEN "True"
    ELSE "False"

\* lines 143-155: "True", "False", or "raise" when requests.post raises
validate_recaptcha(token, service) ==
    IF token = BypassToken THEN "True"
    ELSE IF service = "unreachable" THEN "raise"
    ELSE IF service = "pass" THEN "True"
    ELSE "False"

\* lines 147-150: the verification service is contacted for this token
contacts_siteverify(token) == token # BypassToken

-----------------------------------------------------------------------------
(* src/api.py: process_query, the processing of the generated text *)

\* line 265: both tags occur in the generated text
has_summary(raw) == In(summary_start_tag, raw) /\ In(summary_end_tag, raw)

\* line 268: raw.split(start)[1].split(end)[0].strip()
extract_summary(raw) ==
    strip(split(split(raw, summary_start_tag)[2], summary_end_tag)[1])

\* line 274: the block start + summary + end is cut out of the text
clean_response(raw, summary_content) ==
    strip(replace(raw,
                  << summary_start_tag >> \o summary_content \o << summary_end_tag >>,
                  << >>))

\* line 278: only the tags are cut out
strip_tags(raw) ==
    strip(replace(replace(raw, << summary_start_tag >>, << >>),
                  << summary_end_tag >>, << >>))

\* process_summary with a second dispatch when the first returns False
process_summary_retry(raw, smtp) ==
    IF has_summary(raw)
    THEN LET summary_content == extract_summary(raw)
             sent == send_summary_email(summary_content, summary_content, smtp)
         IN  [ emails |-> IF sent.ret THEN << sent >> ELSE << sent, sent >>,
               user_response |-> IF sent.raised
                                 THEN strip_tags(raw)
                                 ELSE clean_response(raw, summary_content) ]
    ELSE [ emails |-> << >>, user_response |-> raw ]

\* process_summary with the block removed only when the email went out
process_summary_on_success(raw, smtp) ==
    IF has_summary(raw)
    THEN LET summary_content == extract_summary(raw)
             sent == send_summary_email(summary_content, summary_content, smtp)
         IN  [ emails |-> << sent >>,
               user_response |-> IF sent.raised \/ ~ sent.ret
                                 THEN strip_tags(raw)
                                 ELSE clean_response(raw, summary_content) ]
    ELSE [ emails |-> << >>, user_response |-> raw ]

\* lines 261-281: the invocations of send_summary_email and the text for the user
process_summary(raw, smtp) ==
    IF has_summary(raw)
    THEN LET summary_content == extract_summary(raw)
             sent == send_summary_email(summary_content, summary_content, smtp)
         IN  [ emails |-> << sent >>,
               user_response |-> IF sent.raised
                                 THEN strip_tags(raw)
                                 ELSE clean_response(raw, summary_content) ]
    ELSE [ emails |-> << >>, user_response |-> raw ]

\* lines 285-287: what the outer handler makes of an exception e raised in the
\* try block; HTTPException is a subclass of Exception and is caught as well
outer_except(e) == [ status |-> 500, body |-> Detail500 ]

\* line 252: the exception raised on a failed validation
HTTPException403 == [ status |-> 403, body |-> Detail403 ]

-----------------------------------------------------------------------------
(* State *)

NoData == [ question |-> "", recaptcha_token |-> "" ]
NoResponse == [ status |-> 0, body |-> << >> ]
Tokens == { BypassToken, "token" }

ApiEnvirons == { e \in [ RequiredVars -> Ports \cup { "set", None } ] :
                    \A v \in RequiredVars : e[v] \in EnvValues(v) }
IndexEnvirons == { e \in [ RequiredVars -> { "set", None } ] :
                    \A v \in RequiredVars \ { "OPENAI_API_KEY" } : e[v] = None }

Idle ==
    /\ pc = "idle"
    /\ data = NoData
    /\ siteverify = "pass"
    /\ calls = << >>
    /\ query_results = -1
    /\ raw_llm_response = << >>
    /\ emails = << >>
    /\ exc = ""
    /\ response = NoResponse

Init ==
    /\ app = "loading"
    /\ QUERY_ENGINE = None
    /\ \/ module = "api.py" /\ environ \in ApiEnvirons /\ storage = FALSE
       \/ module = "api/index.py" /\ environ \in IndexEnvirons /\ storage \in BOOLEAN
    /\ Idle
    /\ DATA_URL = None
    /\ IngestStart

\* the request ends with the response r, after the exception text e ("" for none)
Respond(r, e) ==
    /\ response' = r
    /\ exc' = e
    /\ pc' = "responded"

-----------------------------------------------------------------------------
(* src/api.py *)

\* lines 50-86: module initialisation
ModuleInit ==
    /\ module = "api.py"
    /\ app = "loading"
    /\ \E clients_ok \in BOOLEAN :
          app' = IF missing_vars # { } \/ ~ clients_ok THEN "dead" ELSE "serving"
    /\ UNCHANGED ivars
    /\ UNCHANGED << module, environ, storage, QUERY_ENGINE, pc, data, siteverify,
                    calls, query_results, raw_llm_response, emails, exc, response >>

\* line 248: a POST /query arrives
ReceiveQuery ==
    /\ module = "api.py"
    /\ app = "serving"
    /\ pc = "idle"
    /\ \E t \in Tokens : data' = [ question |-> "q", recaptcha_token |-> t ]
    /\ siteverify' \in SiteverifyStates
    /\ pc' = "validate"
    /\ UNCHANGED ivars
    /\ UNCHANGED << module, app, environ, storage, QUERY_ENGINE, calls,
                    query_results, raw_llm_response, emails, exc, response >>

\* lines 251-252
Validate ==
    /\ module = "api.py"
    /\ pc = "validate"
    /\ LET valid == validate_recaptcha(data.recaptcha_token, siteverify)
       IN  /\ calls' = calls \o << "validate_recaptcha" >> \o
                       ( IF contacts_siteverify(data.recaptcha_token)
                         THEN << "siteverify" >> ELSE << >> )
           /\ CASE valid = "True" -> pc' = "embed" /\ UNCHANGED << exc, response >>
                [] valid = "False" -> Respond(outer_except(HTTPException403), Detail403[1])
                [] valid = "raise" ->
                     \E e \in ExcTexts : Respond(outer_except(e), e)
    /\ UNCHANGED ivars
    /\ UNCHANGED << module, app, environ, storage, QUERY_ENGINE, data, siteverify,
                    query_results, raw_llm_response, emails >>

\* lines 254, 158-160
Embed ==
    /\ module = "api.py"
    /\ pc = "embed"
    /\ calls' = Append(calls, "embeddings.create")
    /\ \/ pc' = "retrieve" /\ UNCHANGED << exc, response >>
       \/ \E e \in ExcTexts : Respond(outer_except(e), e)
    /\ UNCHANGED ivars
    /\ UNCHANGED << module, app, environ, storage, QUERY_ENGINE, data, siteverify,
                    query_results, raw_llm_response, emails >>

\* lines 255, 162-168
Retrieve ==
    /\ module = "api.py"
    /\ pc = "retrieve"
    /\ calls' = Append(calls, "index.query")
    /\ \/ /\ query_results' \in 0..MaxMatches
          /\ pc' = "generate"
          /\ UNCHANGED << exc, response >>
       \/ /\ \E e \in ExcTexts : Respond(outer_except(e), e)
          /\ UNCHANGED query_results
    /\ UNCHANGED ivars
    /\ UNCHANGED << module, app, environ, storage, QUERY_ENGINE, data, siteverify,
                    raw_llm_response, emails >>

\* lines 258, 170-243: generate_final_response
Generate ==
    /\ module = "api.py"
    /\ pc = "generate"
    /\ \/ \* line 217 raises on a match without metadata text
          /\ query_results > 0
          /\ \E e \in ExcTexts : Respond(outer_except(e), e)
          /\ UNCHANGED << calls, raw_llm_response >>
       \/ \* line 235 raises
          /\ calls' = Append(calls, "chat.completions.create")
          /\ \E e \in ExcTexts : Respond(outer_except(e), e)
          /\ UNCHANGED raw_llm_response
       \/ /\ calls' = Append(calls, "chat.completions.create")
          /\ raw_llm_response' \in Texts
          /\ pc' = "postprocess"
          /\ UNCHANGED << exc, response >>
    /\ UNCHANGED ivars
    /\ UNCHANGED << module, app, environ, storage, QUERY_ENGINE, data, siteverify,
                    query_results, emails >>

\* lines 261-283
PostProcess ==
    /\ module = "api.py"
    /\ pc = "postprocess"
    /\ \E smtp \in IF has_summary(raw_llm_response) THEN SmtpOutcomes ELSE { "ok" } :
          LET done == process_summary(raw_llm_response, smtp)
          IN  /\ emails' = done.emails
              /\ calls' = calls \o [ i \in 1..Len(done.emails) |-> "send_summary_email" ]
              /\ Respond([ status |-> 200, body |-> done.user_response ], "")
    /\ UNCHANGED ivars
    /\ UNCHANGED << module, app, environ, storage, QUERY_ENGINE, data, siteverify,
                    query_results, raw_llm_response >>

-----------------------------------------------------------------------------
(* src/api/index.py *)

\* lines 25-73: initialize_index and the try around it, which swallows what
\* initialize_index raises, so that the module loads in every case
InitializeIndex ==
    /\ module = "api/index.py"
    /\ app = "loading"
    /\ \E load_ok \in BOOLEAN :
          QUERY_ENGINE' = IF environ["OPENAI_API_KEY"] # None /\ storage /\ load_ok
                          THEN "engine" ELSE None
    /\ app' = "serving"
    /\ UNCHANGED ivars
    /\ UNCHANGED << module, environ, storage, pc, data, siteverify, calls,
                    query_results, raw_llm_response, emails, exc, response >>

Events == [ body : { "", "not json", "{}", "{query}" }, query : { "", "q" } ]

\* lines 92-96: the query of the event; "raise" when json.loads raises
event_query(event) ==
    IF event.body # ""
    THEN CASE event.body = "not json" -> "raise"
           [] event.body = "{}" -> ""
           [] event.body = "{query}" -> "q"
    ELSE event.query

\* lines 129-135: the response to an exception with text e
handler_except(e) ==
    [ status |-> 500, body |-> << "Error interno del servidor: ", e >> ]

\* lines 77-135: the handler, from the event to its response
handler ==
    /\ module = "api/index.py"
    /\ app = "serving"
    /\ pc = "idle"
    /\ \E event \in Events, engine_ok \in BOOLEAN, e \in ExcTexts :
          LET query == event_query(event)
          IN  IF QUERY_ENGINE = None
              THEN /\ Respond([ status |-> 503,
                                body |-> << "Servicio no disponible. El indice fallo al cargar." >> ], "")
                   /\ UNCHANGED calls
              ELSE IF query = "raise"
              THEN Respond(handler_except(e), e) /\ UNCHANGED calls
              ELSE IF query = ""
              THEN /\ Respond([ status |-> 400,
                                body |-> << "Falta el parametro 'query'." >> ], "")
                   /\ UNCHANGED calls
              ELSE /\ calls' = Append(calls, "QUERY_ENGINE.query")
                   /\ IF engine_ok
                      THEN Respond([ status |-> 200, body |-> << "response" >> ], "")
                      ELSE Respond(handler_except(e), e)
    /\ UNCHANGED ivars
    /\ UNCHANGED << module, app, environ, storage, QUERY_ENGINE, data, siteverify,
                    query_results, raw_llm_response, emails >>

-----------------------------------------------------------------------------

\* the response has been returned; the service waits for the next request
NextRequest ==
    /\ pc = "responded"
    /\ pc' = "idle"
    /\ data' = NoData
    /\ siteverify' = "pass"
    /\ calls' = << >>
    /\ query_results' = -1
    /\ raw_llm_response' = << >>
    /\ emails' = << >>
    /\ exc' = ""
    /\ response' = NoResponse
    /\ UNCHANGED ivars
    /\ UNCHANGED << module, app, environ, storage, QUERY_ENGINE >>

Next ==
    \/ ModuleInit
    \/ ReceiveQuery
    \/ Validate
    \/ Embed
    \/ Retrieve
    \/ Generate
    \/ PostProcess
    \/ InitializeIndex
    \/ handler
    \/ NextRequest

Spec == Init /\ [][Next]_vars

-----------------------------------------------------------------------------
(* src/index_data.py *)

\* Bounds of the corpus.  BATCH_SIZE is 50 at line 17; the model runs the
\* script with a small batch so that a small corpus fills several batches.
MaxFiles == 3
MaxChunks == 2
BATCH_SIZE == 2

\* what the download and the extraction meet:
\*   "makedirs_error"    os.makedirs raises (line 28, outside the try)
\*   "connection_error"  requests.get raises a RequestException
\*   "http_error"        raise_for_status raises on a non-200 response
\*   "bad_zip"           zipfile raises BadZipFile
\*   "other_error"       any other exception, e.g. while extracting
DownloadOutcomes == { "ok", "makedirs_error", "connection_error", "http_error",
                      "bad_zip", "other_error" }

\* download_and_extract_data without the handler of BadZipFile: the function
\* goes on to return True
download_and_extract_data_badzip(url, outcome) ==
    IF url = None THEN "raise"
    ELSE IF outcome = "makedirs_error" THEN "raise"
    ELSE IF outcome \in { "ok", "bad_zip" } THEN "True"
    ELSE "False"

\* lines 21-48: "True", "False", or "raise" when the exception leaves the function
download_and_extract_data(url, outcome) ==
    IF url = None THEN "raise"
    ELSE IF outcome = "makedirs_error" THEN "raise"
    ELSE IF outcome = "ok" THEN "True"
    ELSE "False"

\* line 28 has created the directory
makes_dir(url, outcome) == url # None /\ outcome # "makedirs_error"

\* after_download with the process ended in the branch of line 177
after_download_exit(ret) ==
    CASE ret = "True" -> "init_clients"
      [] ret = "False" -> "exited"
      [] ret = "raise" -> "exited"

\* lines 176-181: where the main block goes after download_and_extract_data;
\* an exception out of it ends the process with a traceback
after_download(ret) ==
    CASE ret = "True" -> "init_clients"
      [] ret = "False" -> "cleanup"
      [] ret = "raise" -> "exited"

\* batch_full with > for >=
batch_full_late(buffer) == Len(buffer) > BATCH_SIZE

\* line 136
batch_full(buffer) == Len(buffer) >= BATCH_SIZE

\* after_upsert without line 147: a failed batch stays in the buffer
after_upsert_keep(buffer, ok) == IF ok THEN << >> ELSE buffer

\* lines 144 and 147: the buffer after an upsert of the loop
after_upsert(buffer, ok) == << >>

\* buffer_after_file_error with the buffer reset by the handler
buffer_after_file_error_reset(buffer) == << >>

\* lines 149-151: the buffer after the partitioning of a file raised
buffer_after_file_error(buffer) == buffer

\* final_flush_needed without the final batch
final_flush_never(buffer) == FALSE

\* line 157
final_flush_needed(buffer) == buffer # << >>

\* lines 159-166: total_vectors after the final upsert
final_total(total, buffer, ok) == IF ok THEN total + Len(buffer) ELSE total

\* lines 176-179 and 21-48: the main block calls download_and_extract_data
DownloadAndExtract ==
    /\ ipc = "main"
    /\ \E outcome \in DownloadOutcomes :
          LET ret == download_and_extract_data(DATA_URL, outcome)
          IN  /\ download' = IF DATA_URL = None THEN "" ELSE outcome
              /\ made_dir' = makes_dir(DATA_URL, outcome)
              /\ temp_dir' = makes_dir(DATA_URL, outcome)
              /\ ipc' = after_download(ret)
              /\ exit_code' = IF after_download(ret) = "exited" THEN 1 ELSE exit_code
              /\ IF ret = "True"
                 THEN n_files' \in 0..MaxFiles
                 ELSE UNCHANGED n_files
    /\ UNCHANGED << DATA_URL, entered, file_no, n_chunks, chunk_no,
                    vectors_to_upsert, total_vectors, document_count,
                    embedding_calls, embedded, upserts, failed_files,
                    printed_total, cleanup_ran >>
    /\ UNCHANGED qvars

\* lines 61-81: index_data_optimized is entered and creates its clients
InitClients ==
    /\ ipc = "init_clients"
    /\ entered' = TRUE
    /\ \E ok \in BOOLEAN : ipc' = IF ok THEN "next_file" ELSE "cleanup"
    /\ UNCHANGED << DATA_URL, temp_dir, made_dir, download, n_files, file_no,
                    n_chunks, chunk_no, vectors_to_upsert, total_vectors,
                    document_count, embedding_calls, embedded, upserts,
                    failed_files, printed_total, cleanup_ran, exit_code >>
    /\ UNCHANGED qvars

\* lines 84-98 and 149-151: the next file is partitioned and chunked
StartFile ==
    /\ ipc = "next_file"
    /\ file_no < n_files
    /\ file_no' = file_no + 1
    /\ chunk_no' = 0
    /\ \/ /\ n_chunks' \in 0..MaxChunks
          /\ ipc' = "chunks"
          /\ UNCHANGED << vectors_to_upsert, failed_files >>
       \/ /\ failed_files' = failed_files \cup { file_no + 1 }
          /\ vectors_to_upsert' = buffer_after_file_error(vectors_to_upsert)
          /\ n_chunks' = 0
          /\ ipc' = "next_file"
    /\ UNCHANGED << DATA_URL, temp_dir, made_dir, download, entered, n_files,
                    total_vectors, document_count, embedding_calls, embedded,
                    upserts, printed_total, cleanup_ran, exit_code >>
    /\ UNCHANGED qvars

\* lines 101-147: one chunk of the file; kind is what happens to it:
\*   "blank"        its text is whitespace only (line 102)
\*   "embed_error"  embeddings.create raises (lines 131-133)
\*   "embedded"     the vector is appended, and upserted with the batch when
\*                  the batch is full
ProcessChunk ==
    /\ ipc = "chunks"
    /\ chunk_no < n_chunks
    /\ chunk_no' = chunk_no + 1
    /\ \E kind \in { "blank", "embed_error", "embedded" }, upsert_ok \in BOOLEAN :
          LET chunk_id == << file_no, chunk_no + 1 >>
              buffer == Append(vectors_to_upsert, chunk_id)
          IN  /\ embedding_calls' = IF kind = "blank" THEN embedding_calls
                                    ELSE embedding_calls + 1
              /\ IF kind = "embedded"
                 THEN /\ embedded' = embedded \cup { chunk_id }
                      /\ total_vectors' = total_vectors + 1
                      /\ IF batch_full(buffer)
                         THEN /\ upserts' = Append(upserts,
                                        [ vectors |-> buffer, ok |-> upsert_ok ])
                              /\ vectors_to_upsert' = after_upsert(buffer, upsert_ok)
                         ELSE /\ vectors_to_upsert' = buffer
                              /\ UNCHANGED upserts
                 ELSE UNCHANGED << embedded, total_vectors, upserts,
                                   vectors_to_upsert >>
    /\ UNCHANGED << DATA_URL, temp_dir, made_dir, download, entered, n_files,
                    file_no, n_chunks, document_count, failed_files,
                    printed_total, cleanup_ran, exit_code, ipc >>
    /\ UNCHANGED qvars

\* lines 153-154: the file is done
EndFile ==
    /\ ipc = "chunks"
    /\ chunk_no = n_chunks
    /\ document_count' = document_count + 1
    /\ ipc' = "next_file"
    /\ UNCHANGED << DATA_URL, temp_dir, made_dir, download, entered, n_files,
                    file_no, n_chunks, chunk_no, vectors_to_upsert,
                    total_vectors, embedding_calls, embedded, upserts,
                    failed_files, printed_total, cleanup_ran, exit_code >>
    /\ UNCHANGED qvars

\* lines 156-170: the final batch and the report
FinalFlush ==
    /\ ipc = "next_file"
    /\ file_no = n_files
    /\ \E upsert_ok \in BOOLEAN :
          IF final_flush_needed(vectors_to_upsert)
          THEN /\ upserts' = Append(upserts, [ vectors |-> vectors_to_upsert,
                                               ok |-> upsert_ok ])
               /\ total_vectors' = final_total(total_vectors, vectors_to_upsert,
                                               upsert_ok)
               /\ printed_total' = final_total(total_vectors, vectors_to_upsert,
                                               upsert_ok)
          ELSE /\ printed_total' = total_vectors
               /\ UNCHANGED << upserts, total_vectors >>
    /\ ipc' = "cleanup"
    /\ UNCHANGED << DATA_URL, temp_dir, made_dir, download, entered, n_files,
                    file_no, n_chunks, chunk_no, vectors_to_upsert,
                    document_count, embedding_calls, embedded, failed_files,
                    cleanup_ran, exit_code >>
    /\ UNCHANGED qvars

\* lines 181-189: the temporary directory is removed and the script ends
Cleanup ==
    /\ ipc = "cleanup"
    /\ cleanup_ran' = TRUE
    /\ \E removed \in BOOLEAN : temp_dir' = (temp_dir /\ ~ removed)
    /\ ipc' = "exited"
    /\ exit_code' = 0
    /\ UNCHANGED << DATA_URL, made_dir, download, entered, n_files, file_no,
                    n_chunks, chunk_no, vectors_to_upsert, total_vectors,
                    document_count, embedding_calls, embedded, upserts,
                    failed_files, printed_total >>
    /\ UNCHANGED qvars

InitIngest ==
    /\ module = "index_data.py"
    /\ app = "loading"
    /\ environ = [ v \in RequiredVars |-> None ]
    /\ storage = FALSE
    /\ QUERY_ENGINE = None
    /\ Idle
    /\ DATA_URL \in { "set", None }
    /\ IngestStart

NextIngest ==
    \/ DownloadAndExtract
    \/ InitClients
    \/ StartFile
    \/ ProcessChunk
    \/ EndFile
    \/ FinalFlush
    \/ Cleanup

SpecIngest == InitIngest /\ [][NextIngest]_vars

-----------------------------------------------------------------------------
(* Vocabulary of the properties *)

Downstream == { "embeddings.create", "index.query", "chat.completions.create",
                "send_summary_email" }

Made(call) == \E i \in 1..Len(calls) : calls[i] = call

\* a request of api.py has been answered
Answered == module = "api.py" /\ pc = "responded"

\* a request of api.py has been answered from the generated text
AnsweredFromText == Answered /\ Made("chat.completions.create") /\ exc = ""

\* the token of the request is one validate_recaptcha answers False for
TokenRejected ==
    /\ data.recaptcha_token # BypassToken
    /\ siteverify \in { "low_score", "fail" }

Min(S) == CHOOSE x \in S : \A y \in S : x <= y
Max(S) == CHOOSE x \in S : \A y \in S : x >= y
Positions(tok, s) == { i \in 1..Len(s) : s[i] = tok }

\* a start tag with an end tag somewhere after it
HasPair(s) ==
    \E i \in Positions(summary_start_tag, s) :
        \E j \in Positions(summary_end_tag, s) : i < j

FirstStart(s) == Min(Positions(summary_start_tag, s))

\* the text between the first start tag and the first end tag after it
Enclosed(s) ==
    LET i == FirstStart(s)
        j == Min({ k \in Positions(summary_end_tag, s) : k > i })
    IN  SubSeq(s, i + 1, j - 1)

\* the text between the first start tag and the next tag of either kind
UpToNextTag(s) ==
    LET i == FirstStart(s)
        j == Min({ k \in Positions(summary_start_tag, s)
                           \cup Positions(summary_end_tag, s) : k > i })
    IN  SubSeq(s, i + 1, j - 1)

\* the text outside the first start tag, the first end tag after it and what
\* they enclose
Outside(s) ==
    LET i == FirstStart(s)
        j == Min({ k \in Positions(summary_end_tag, s) : k > i })
    IN  SubSeq(s, 1, i - 1) \o SubSeq(s, j + 1, Len(s))

\* s without its leading and trailing whitespace
Trimmed(s) ==
    LET solid == { i \in 1..Len(s) : s[i] \notin Whitespace }
    IN  IF solid = { } THEN << >> ELSE SubSeq(s, Min(solid), Max(solid))

\* sub occurs in s as a contiguous block
Occurs(sub, s) ==
    \E i \in 1..(Len(s) - Len(sub) + 1) : SubSeq(s, i, i + Len(sub) - 1) = sub

NoRelevantInformation == << "no relevant information" >>

-----------------------------------------------------------------------------
(* Properties of process_query *)

\* C1: a request whose token validate_recaptcha rejects is answered with
\* status 403 and a detail message, not with the 500 of an internal failure.
C1_RejectedTokenGets403 ==
    (Answered /\ TokenRejected) =>
        /\ response.status = 403
        /\ response.body # << >>
        /\ response # outer_except("any")

\* C2: no downstream call (embedding, index query, chat completion, lead
\* email) is made for a request whose token is rejected, and in every request
\* validate_recaptcha has returned before the first downstream call.
C2_ValidationBeforeDownstream ==
    module = "api.py" =>
        /\ TokenRejected => \A i \in 1..Len(calls) : calls[i] \notin Downstream
        /\ \A i \in 1..Len(calls) :
              calls[i] \in Downstream =>
                  \E j \in 1..(i - 1) : calls[j] = "validate_recaptcha"

\* C2 witness: a rejected token has been answered after validation ran.
C2_Witness ==
    Answered /\ TokenRejected /\ calls = << "validate_recaptcha", "siteverify" >>

\* C3: when the index returns zero matches the chat completion is never called
\* and the answer is the fixed "no relevant information" message.
C3_NoMatchesShortCircuit ==
    (module = "api.py" /\ query_results = 0) =>
        /\ ~ Made("chat.completions.create")
        /\ (pc = "responded" /\ exc = "") =>
              response = [ status |-> 200, body |-> NoRelevantInformation ]

\* C4: when the generated text holds a start tag, a text and an end tag, the
\* answer holds neither tag nor the enclosed text (unless that text also
\* stands outside the block).
C4_SummaryRemoved ==
    (AnsweredFromText /\ HasPair(raw_llm_response)) =>
        LET text == Trimmed(Enclosed(raw_llm_response))
        IN  /\ ~ In(summary_start_tag, response.body)
            /\ ~ In(summary_end_tag, response.body)
            /\ (text # << >> /\ ~ Occurs(text, Outside(raw_llm_response)))
                  => ~ Occurs(text, response.body)

\* C5: when the tags are missing or mismatched (no start tag that an end tag
\* follows) the answer is the generated text unmodified and
\* send_summary_email is not called.
C5_MismatchedTagsUntouched ==
    (AnsweredFromText /\ ~ HasPair(raw_llm_response)) =>
        /\ response.body = raw_llm_response
        /\ emails = << >>
        /\ ~ Made("send_summary_email")


\* C6, as stated: when the generated text holds a start tag and an end tag
\* after it, send_summary_email is invoked exactly once, with the text the
\* first pair of tags encloses.
C6_OneDispatchOfEnclosedText ==
    (AnsweredFromText /\ HasPair(raw_llm_response)) =>
        /\ Len(emails) = 1
        /\ Cardinality(Positions("send_summary_email", calls)) = 1
        /\ emails[1].input = Enclosed(raw_llm_response)

\* C6, amended: send_summary_email is invoked exactly once, with the text
\* between the first start tag and the next tag of either kind, without its
\* leading and trailing whitespace.
C6_OneDispatchOfTrimmedText ==
    (AnsweredFromText /\ HasPair(raw_llm_response)) =>
        /\ Len(emails) = 1
        /\ Cardinality(Positions("send_summary_email", calls)) = 1
        /\ emails[1].input = Trimmed(UpToNextTag(raw_llm_response))

\* C6 witness: a summary surrounded by whitespace was dispatched, and the
\* SMTP server refused it.
C6_Witness ==
    /\ AnsweredFromText
    /\ HasPair(raw_llm_response)
    /\ Len(emails) = 1
    /\ emails[1].input # << >>
    /\ emails[1].input # Enclosed(raw_llm_response)
    /\ ~ emails[1].ret

\* C7: when a step after validation raises, the answer is status 500 with one
\* fixed message that does not hold the text of the exception, in both
\* services.
C7_GenericErrorOnly ==
    /\ (Answered /\ exc \in ExcTexts /\ Made("embeddings.create")) =>
          /\ response = [ status |-> 500, body |-> Detail500 ]
          /\ ~ In(exc, response.body)
    /\ (module = "api/index.py" /\ pc = "responded" /\ exc \in ExcTexts) =>
          /\ response.status = 500
          /\ ~ In(exc, response.body)

\* C8: with the bypass token the verification service is never contacted and
\* the request goes on to the embedding step, whatever the state of the
\* verification service.
C8_BypassAlwaysProceeds ==
    (module = "api.py" /\ data.recaptcha_token = BypassToken) =>
        /\ ~ Made("siteverify")
        /\ calls = << "validate_recaptcha" >> => pc = "embed"
        /\ pc = "responded" => Made("embeddings.create")

\* C8 witness: a request with the bypass token stands at the embedding step
\* while the verification service is unreachable.
C8_Witness ==
    /\ module = "api.py"
    /\ data.recaptcha_token = BypassToken
    /\ siteverify = "unreachable"
    /\ pc = "embed"

BodyBeforeSubject(s) ==
    /\ In(SubjectMarker, s)
    /\ In(BodyMarker, s)
    /\ Min(Positions(BodyMarker, s)) < Min(Positions(SubjectMarker, s))

\* C10: when the summary lacks "Subject:", lacks "Body:" or has "Body:" before
\* "Subject:", the email has the fixed alert subject and the whole summary as
\* its body.
C10_FallbackOnBadMarkers ==
    \A i \in 1..Len(emails) :
        LET e == emails[i]
        IN  ( /\ e.built
              /\ \/ ~ In(SubjectMarker, e.input)
                 \/ ~ In(BodyMarker, e.input)
                 \/ BodyBeforeSubject(e.input) ) =>
                /\ e.subject_line = FormatErrorSubject
                /\ e.body_content = e.input


-----------------------------------------------------------------------------
(* Properties of the ingestion script *)

\* index_data_optimized has run to its report
Completed == printed_total # -1

\* the script is inside the loop over the files
InLoop == ipc \in { "next_file", "chunks" }

Holds(batch, x) == \E k \in 1..Len(batch) : batch[k] = x

\* the upsert calls that carried the vector of chunk x
Sent(x) == { i \in 1..Len(upserts) : Holds(upserts[i].vectors, x) }

\* the vectors the index received in a successful call
Upserted == { x \in embedded : \E i \in Sent(x) : upserts[i].ok }

\* chunk x is handled before chunk y
Before(x, y) == x[1] < y[1] \/ (x[1] = y[1] /\ x[2] < y[2])

DownloadFailures == { "connection_error", "http_error", "bad_zip", "other_error" }

\* C11: with N chunks embedded, one upsert call has been made each time the
\* buffer reached BATCH_SIZE and, at the end, one more for a non-empty
\* remainder: ceil(N / BATCH_SIZE) calls, whether the calls fail or not.
C11_UpsertCallsAreCeil ==
    LET N == Cardinality(embedded)
    IN  /\ InLoop =>
              /\ Len(upserts) = N \div BATCH_SIZE
              /\ Len(vectors_to_upsert) = N % BATCH_SIZE
        /\ Completed =>
              Len(upserts) = (N + BATCH_SIZE - 1) \div BATCH_SIZE

\* C11 witness: three chunks were embedded, the full batch failed and the
\* remainder went out in a second call.
C11_Witness ==
    /\ Completed
    /\ Cardinality(embedded) = BATCH_SIZE + 1
    /\ Len(upserts) = 2
    /\ ~ upserts[1].ok

\* C12: the total printed is the number of vectors of the successful upsert
\* calls, each counted once.
C12_TotalIsUpserted ==
    Completed => printed_total = Cardinality(Upserted)

\* C13: the vectors of a failed upsert call are in no other call and do not
\* stay in the buffer, what was sent before stays as it was, and the chunks
\* embedded after the failure still go to the buffer and to a later call.
C13_FailedBatchDropped ==
    /\ [] ( \A i \in 1..Len(upserts) :
              ~ upserts[i].ok =>
                  /\ \A x \in embedded :
                        Holds(upserts[i].vectors, x) =>
                            /\ Sent(x) = { i }
                            /\ InLoop => ~ Holds(vectors_to_upsert, x)
                  /\ \A y \in embedded :
                        (\A k \in 1..Len(upserts[i].vectors) :
                              Before(upserts[i].vectors[k], y)) =>
                            /\ Holds(vectors_to_upsert, y)
                                  \/ \E j \in Sent(y) : j > i
                            /\ Completed => \E j \in Sent(y) : j > i )
    /\ [][ /\ Len(upserts') >= Len(upserts)
           /\ \A i \in 1..Len(upserts) : upserts'[i] = upserts[i] ]_vars

\* C13 witness: a batch failed and a later batch, of chunks embedded after the
\* failure, was upserted.
C13_Witness ==
    /\ Completed
    /\ \E i \in 1..Len(upserts) :
          /\ ~ upserts[i].ok
          /\ \E j \in 1..Len(upserts) : j > i /\ upserts[j].ok

\* C14: when the partitioning of a file raises, the vectors buffered from
\* earlier files are kept and upserted, and every file after it is still
\* processed.
C14_FileFailureIsolated ==
    \A f \in failed_files :
        /\ \A x \in embedded :
              x[1] < f =>
                  /\ Holds(vectors_to_upsert, x) \/ Sent(x) # { }
                  /\ Completed => Sent(x) # { }
        /\ Completed =>
              /\ file_no = n_files
              /\ document_count + Cardinality(failed_files) = n_files

\* C14 witness: the second of three files failed while a vector of the first
\* was buffered; that vector was upserted and the third file was embedded.
C14_Witness ==
    /\ Completed
    /\ failed_files = { 2 }
    /\ \E x \in embedded : x[1] = 1 /\ Sent(x) = { Len(upserts) }
    /\ \E y \in embedded : y[1] = 3


\* C15: the script exits with 0 when it runs to completion and with another
\* code when DATA_URL is missing or the download or the extraction fails.
C15_ExitCodes ==
    ipc = "exited" =>
        /\ Completed => exit_code = 0
        /\ (DATA_URL = None \/ download \in DownloadFailures) => exit_code # 0

\* C16: when the temporary directory was created, the removal step has run
\* by the time the process ends.
C16_CleanupRuns ==
    (ipc = "exited" /\ made_dir) => cleanup_ran

\* C16 witness: the download answered with an HTTP error after the directory
\* was created, and the removal step ran.
C16_Witness ==
    /\ ipc = "exited"
    /\ made_dir
    /\ download = "http_error"
    /\ cleanup_ran
    /\ ~ temp_dir

\* C17: after a failed download or an invalid archive index_data_optimized
\* is not entered: no embedding call and no upsert call is made.
C17_FailedDownloadAborts ==
    download \in DownloadFailures =>
        /\ ~ entered
        /\ embedding_calls = 0
        /\ upserts = << >>
        /\ ipc \in { "cleanup", "exited" }

\* C17 witness: the run has ended after an archive that is no ZIP file.
C17_Witness ==
    /\ ipc = "exited"
    /\ download = "bad_zip"
    /\ ~ entered

\* the configuration the service needs is not there
ConfigurationMissing ==
    \/ module = "api.py" /\ missing_vars # { }
    \/ module = "api/index.py" /\ (environ["OPENAI_API_KEY"] = None \/ ~ storage)

\* C18: with configuration missing the module initialisation raises: the
\* service never serves and never handles a request.
C18_MissingConfigurationIsFatal ==
    ConfigurationMissing =>
        /\ app # "serving"
        /\ pc = "idle"

\* C19: every embedded chunk is in the buffer or in exactly one upsert call,
\* never in both, and in exactly one call once the run is complete; every
\* upsert call carries between 1 and BATCH_SIZE vectors, each once.
C19_EachVectorUpsertedOnce ==
    /\ \A x \in embedded :
          /\ Cardinality(Sent(x)) <= 1
          /\ InLoop => (Holds(vectors_to_upsert, x) <=> Sent(x) = { })
          /\ Completed => Cardinality(Sent(x)) = 1
    /\ \A i \in 1..Len(upserts) :
          LET batch == upserts[i].vectors
          IN  /\ Len(batch) >= 1
              /\ Len(batch) <= BATCH_SIZE
              /\ \A k \in 1..Len(batch) :
                    /\ batch[k] \in embedded
                    /\ \A l \in 1..Len(batch) : batch[k] = batch[l] => k = l

\* C19 witness: a run with a failed file, a failed embedding call and a failed
\* upsert call is complete, with vectors in two calls.
C19_Witness ==
    /\ Completed
    /\ failed_files # { }
    /\ embedding_calls > Cardinality(embedded)
    /\ Len(upserts) = 2
    /\ ~ upserts[1].ok
    /\ Len(upserts[1].vectors) = BATCH_SIZE

\* C20: the answer of process_query does not depend on what the dispatch of
\* the lead email met: it is the answer the same generated text gets under
\* every other SMTP outcome.
C20_AnswerIndependentOfEmail ==
    AnsweredFromText =>
        /\ response.status = 200
        /\ emails # << >> =>
              \A smtp \in SmtpOutcomes :
                  response.body = process_summary(raw_llm_response, smtp).user_response

\* C20 witness: the SMTP server took the message and failed at quit; the
\* request was answered with the cleaned text.
C20_Witness ==
    /\ AnsweredFromText
    /\ Len(emails) = 1
    /\ emails[1].smtp = "quit_error"
    /\ emails[1].handed
    /\ response.body # raw_llm_response

====
